---- MODULE Spec2Model ----
(***************************************************************************)
(* Model of the event-gallery client: the module-level listing cache, the  *)
(* empty-gallery revalidation scheduler and the debounce helper of         *)
(* src/src/lib/galleryCache.ts, and the read path of the Gallery component *)
(* of src/src/components/Gallery.tsx that uses them, its lightbox, the     *)
(* tracked uploads of src/src/components/UploaderAndGallery.tsx and        *)
(* normalizeHashtag of src/src/lib/hashtags.ts.                            *)
(*                                                                         *)
(* Time is Date.now() in milliseconds.  The browser's timer table is part  *)
(* of the state: setTimeout / setInterval add a timer, clearTimeout /      *)
(* clearInterval remove it, and a timer may run once the clock has reached *)
(* its due time (never earlier; the event loop may run it later).          *)
(***************************************************************************)
EXTENDS Integers, Sequences, FiniteSets, TLC

VARIABLES
    now,          \* Date.now(), in ms
    ticks,        \* number of clock advances so far (bounds the run)
    cache,        \* galleryCache.ts: const cache = new Map<string, CachedListing>()
    intervals,    \* galleryCache.ts: const intervals = new Map<string, Timeout>()
    timers,       \* the browser's table of live timers, by timer id
    nextTimerId,  \* the id the next setTimeout / setInterval returns
    timeoutId,    \* createDebouncedFunction: the closure's `let timeoutId`
    callLog,      \* calls made to the debounced wrapper: <<[args, at], ...>>
    funcLog,      \* invocations of the wrapped func:     <<[args, at], ...>>
    lastSet,      \* history: per event code, the latest set not yet invalidated/cleared
    started,      \* history: per event code, the callback of the latest start not yet stopped
    lastOp,       \* the operation that ran last, with its arguments and result
    mounted,      \* a Gallery component is mounted
    inst,         \* number of the Gallery instance mounted last
    galleryEvent,    \* Gallery prop eventCode of that instance
    refreshKey,   \* Gallery prop refreshKey (state of the parent)
    files,        \* Gallery state files: the array object and its items
    loading,      \* Gallery state loading
    error,        \* Gallery state error: Null or [message |-> ...]
    isInitialLoad,    \* Gallery ref isInitialLoad
    lastRefreshKey,   \* Gallery ref lastRefreshKey
    media,        \* the backend's media table, per event code, newest first
    fetches,      \* fetchFilesFromSupabase calls suspended at their await, by number
    nextFetchId,  \* number of the next fetch
    toasts,       \* notifications raised with showToast
    completed,    \* history: per event code, the successful fetch that completed last
    lightboxOpen, \* Gallery state lightboxOpen
    activeIndex,  \* Gallery state activeIndex (0-based, as in the code)
    activeTitle,  \* Gallery state activeTitle: the name of the file the lightbox shows
    uploadFiles,  \* UploaderAndGallery state uploadFiles: the tracked uploads
    retryCalls,   \* retryFailedUploads calls suspended at their await, by number
    events        \* number of environment events so far (bounds the run)

\* the library's state without the record of the last operation
libState == <<now, ticks, cache, intervals, timers, nextTimerId, timeoutId,
              callLog, funcLog, lastSet, started>>

libVars == <<now, ticks, cache, intervals, timers, nextTimerId, timeoutId,
             callLog, funcLog, lastSet, started, lastOp>>

lightboxVars == <<lightboxOpen, activeIndex, activeTitle>>

uploadVars == <<uploadFiles, retryCalls>>

galleryVars == <<mounted, inst, galleryEvent, refreshKey, files, loading, error,
                 isInitialLoad, lastRefreshKey, media, fetches, nextFetchId, toasts,
                 completed, lightboxOpen, activeIndex, activeTitle, uploadFiles,
                 retryCalls, events>>

vars == <<now, ticks, cache, intervals, timers, nextTimerId, timeoutId,
          callLog, funcLog, lastSet, started, lastOp,
          mounted, inst, galleryEvent, refreshKey, files, loading, error,
          isInitialLoad, lastRefreshKey, media, fetches, nextFetchId, toasts,
          completed, lightboxOpen, activeIndex, activeTitle, uploadFiles, retryCalls,
          events>>

-----------------------------------------------------------------------------
(* Bounds of the model *)

MaxTicks == 2
MaxTimers == 4
MaxCalls == 3
MaxStarts == 1
MaxEvents == 4
MaxRuns == 3
MaxFetches == 4
MaxFiles == 3

(* Program constants *)

CACHE_DURATION == 5 * 60 * 1000
EMPTY_REVALIDATION_INTERVAL == 15 * 1000

-----------------------------------------------------------------------------
(* Values *)

EventCodes == {"evt1", "evt2"}

FileA == [name |-> "a.jpg", id |-> "1", created_at |-> "t0", size |-> 100]
FileB == [name |-> "b.mp4", id |-> "2", created_at |-> "t1", size |-> 0]

\* the listings a caller of the cache hands to setCachedListing
Listings == {<< >>, <<FileA>>, <<FileB, FileA>>}

\* JavaScript null / undefined
Null == [null |-> TRUE]

\* Map.prototype.set and Map.prototype.delete on a map held as a function
MapSet(m, k, v) == [x \in (DOMAIN m) \cup {k} |-> IF x = k THEN v ELSE m[x]]
MapDelete(m, k) == [x \in (DOMAIN m) \ {k} |-> m[x]]
EmptyMap == [x \in {} |-> Null]

-----------------------------------------------------------------------------
(* The clock *)

\* d ms pass
Advance(d) ==
    /\ ticks < MaxTicks
    /\ now' = now + d
    /\ ticks' = ticks + 1

-----------------------------------------------------------------------------
(* galleryCache.ts: cache management *)

\* (variant: the entry expires one millisecond early)
IsExpiredEarly(cached, t) == t - cached.timestamp >= CACHE_DURATION
\* now - cached.timestamp > CACHE_DURATION
IsExpired(cached, t) == t - cached.timestamp > CACHE_DURATION

\* the value getCachedListing(eventCode) returns
GetResult(c, eventCode, t) ==
    IF eventCode \notin DOMAIN c THEN Null
    ELSE IF IsExpired(c[eventCode], t) THEN Null
    ELSE c[eventCode]

\* (variant: an expired entry is reported absent but not deleted)
GetKeepsExpired(c, eventCode, t) == c
\* (variant: a read of a fresh entry restarts its freshness window)
GetTouchesEntry(c, eventCode, t) ==
    IF eventCode \notin DOMAIN c THEN c
    ELSE IF IsExpired(c[eventCode], t) THEN MapDelete(c, eventCode)
    ELSE [c EXCEPT ![eventCode].timestamp = t]
\* the cache map after getCachedListing(eventCode)
GetEffect(c, eventCode, t) ==
    IF eventCode \in DOMAIN c /\ IsExpired(c[eventCode], t)
    THEN MapDelete(c, eventCode)
    ELSE c

\* (variant: an overwritten entry keeps its old timestamp)
SetKeepsTimestamp(c, eventCode, fileList, t) ==
    MapSet(c, eventCode,
           [files |-> fileList,
            timestamp |-> IF eventCode \in DOMAIN c THEN c[eventCode].timestamp ELSE t,
            eventCode |-> eventCode])
\* (variant: an existing entry is not overwritten)
SetKeepsExisting(c, eventCode, fileList, t) ==
    IF eventCode \in DOMAIN c
    THEN c
    ELSE MapSet(c, eventCode,
                [files |-> fileList, timestamp |-> t, eventCode |-> eventCode])
\* the cache map after setCachedListing(eventCode, fileList)
SetEffect(c, eventCode, fileList, t) ==
    MapSet(c, eventCode, [files |-> fileList, timestamp |-> t, eventCode |-> eventCode])

\* (variant: only an expired entry is removed)
InvalidateOnlyExpired(c, eventCode, t) == GetEffect(c, eventCode, t)
\* the cache map after invalidateCache(eventCode)
InvalidateEffect(c, eventCode, t) == MapDelete(c, eventCode)

getCachedListing(eventCode) ==
    /\ cache' = GetEffect(cache, eventCode, now)
    /\ lastOp' = [op |-> "get", eventCode |-> eventCode,
                  ret |-> GetResult(cache, eventCode, now), before |-> cache]
    /\ UNCHANGED <<now, ticks, intervals, timers, nextTimerId, timeoutId,
                   callLog, funcLog, lastSet, started>>

setCachedListing(eventCode, fileList) ==
    /\ cache' = SetEffect(cache, eventCode, fileList, now)
    /\ lastSet' = [lastSet EXCEPT ![eventCode] =
                       [state |-> "set", files |-> fileList, at |-> now]]
    /\ lastOp' = [op |-> "set", eventCode |-> eventCode, files |-> fileList,
                  replaced |-> IF eventCode \in DOMAIN cache THEN cache[eventCode] ELSE Null]
    /\ UNCHANGED <<now, ticks, intervals, timers, nextTimerId, timeoutId,
                   callLog, funcLog, started>>

invalidateCache(eventCode) ==
    /\ cache' = InvalidateEffect(cache, eventCode, now)
    /\ lastSet' = [lastSet EXCEPT ![eventCode].state = "invalidated"]
    /\ lastOp' = [op |-> "invalidate", eventCode |-> eventCode]
    /\ UNCHANGED <<now, ticks, intervals, timers, nextTimerId, timeoutId,
                   callLog, funcLog, started>>

\* (variant: only the expired entries are dropped)
ClearOnlyExpired(c, t) ==
    [e \in {k \in DOMAIN c : ~IsExpired(c[k], t)} |-> c[e]]
\* the cache map after clearCache(): cache.clear()
ClearEffect(c, t) == EmptyMap

clearCache ==
    /\ cache' = ClearEffect(cache, now)
    /\ lastSet' = [e \in EventCodes |-> [lastSet[e] EXCEPT !.state = "cleared"]]
    /\ lastOp' = [op |-> "clear", before |-> cache,
                  timersBefore |-> timers, intervalsBefore |-> intervals]
    /\ UNCHANGED <<now, ticks, intervals, timers, nextTimerId, timeoutId,
                   callLog, funcLog, started>>

\* history value of an event code no listing was ever stored for
NeverSet == [state |-> "none", files |-> << >>, at |-> 0]

-----------------------------------------------------------------------------
(* The browser's timers *)

\* setTimeout(cb, delay) / setInterval(cb, delay) returning id at time t
SetTimer(tm, id, kind, cb, delay, t) ==
    MapSet(tm, id, [kind |-> kind, cb |-> cb, delay |-> delay, due |-> t + delay])

\* clearTimeout(id) / clearInterval(id): a no-op for an id that is not live
ClearTimer(tm, id) == MapDelete(tm, id)

\* timer id may run: it is live and its delay has elapsed
Due(id) == id \in DOMAIN timers /\ now >= timers[id].due

\* the timer table once timer id has run at time t: a timeout is gone, an
\* interval is armed again
TimersAfterFire(tm, id, t) ==
    IF tm[id].kind = "interval"
    THEN [tm EXCEPT ![id].due = t + tm[id].delay]
    ELSE MapDelete(tm, id)

-----------------------------------------------------------------------------
(* galleryCache.ts: interval management for empty galleries *)

\* (variant: the map entry is dropped without clearInterval)
TimersAfterStopLeak(tm, iv, eventCode) == tm
\* stopEmptyGalleryRevalidation(eventCode): the timer table and the map after it
TimersAfterStop(tm, iv, eventCode) ==
    IF eventCode \in DOMAIN iv /\ iv[eventCode] # 0
    THEN ClearTimer(tm, iv[eventCode])
    ELSE tm

\* (variant: the whole map is emptied)
IntervalsAfterStopAll(iv, eventCode) == EmptyMap
IntervalsAfterStop(iv, eventCode) ==
    IF eventCode \in DOMAIN iv /\ iv[eventCode] # 0
    THEN MapDelete(iv, eventCode)
    ELSE iv

\* (variant: the existing interval is not cleared first)
TimersAfterStartNoStop(tm, iv, eventCode, cb, id, t) ==
    SetTimer(tm, id, "interval", cb, EMPTY_REVALIDATION_INTERVAL, t)
\* startEmptyGalleryRevalidation(eventCode, revalidateCallback), setInterval
\* returning id at time t
TimersAfterStart(tm, iv, eventCode, cb, id, t) ==
    SetTimer(TimersAfterStop(tm, iv, eventCode), id, "interval", cb,
             EMPTY_REVALIDATION_INTERVAL, t)

IntervalsAfterStart(iv, eventCode, id) ==
    MapSet(IntervalsAfterStop(iv, eventCode), eventCode, id)

\* cleanupAllIntervals(): every registered interval is cleared
\* (variant: the map is emptied but the intervals are not cleared)
TimersAfterCleanupNone(tm, iv) == tm
TimersAfterCleanup(tm, iv) ==
    [id \in (DOMAIN tm) \ {iv[e] : e \in DOMAIN iv} |-> tm[id]]

\* history value of an event code no revalidation was ever started for
NeverStarted == [state |-> "none", cb |-> "", prev |-> "", id |-> 0, at |-> 0]

startEmptyGalleryRevalidation(eventCode, revalidateCallback) ==
    /\ nextTimerId <= MaxTimers
    /\ timers' = TimersAfterStart(timers, intervals, eventCode,
                                  [fn |-> "revalidate", eventCode |-> eventCode,
                                   name |-> revalidateCallback],
                                  nextTimerId, now)
    /\ intervals' = IntervalsAfterStart(intervals, eventCode, nextTimerId)
    /\ nextTimerId' = nextTimerId + 1
    /\ started' = [started EXCEPT ![eventCode] =
                      [state |-> "active", cb |-> revalidateCallback,
                       prev |-> IF started[eventCode].state = "active"
                                THEN started[eventCode].cb ELSE "",
                       id |-> nextTimerId, at |-> now]]
    /\ lastOp' = [op |-> "start", eventCode |-> eventCode, cb |-> revalidateCallback]
    /\ UNCHANGED <<now, ticks, cache, timeoutId, callLog, funcLog, lastSet>>

stopEmptyGalleryRevalidation(eventCode) ==
    /\ timers' = TimersAfterStop(timers, intervals, eventCode)
    /\ intervals' = IntervalsAfterStop(intervals, eventCode)
    /\ started' = [started EXCEPT ![eventCode].state =
                      IF @ = "active" THEN "stopped" ELSE @]
    /\ lastOp' = [op |-> "stop", eventCode |-> eventCode,
                  repeated |-> (lastOp.op = "stop" /\ lastOp.eventCode = eventCode),
                  timersBefore |-> timers, intervalsBefore |-> intervals]
    /\ UNCHANGED <<now, ticks, cache, nextTimerId, timeoutId, callLog, funcLog, lastSet>>

cleanupAllIntervals ==
    /\ timers' = TimersAfterCleanup(timers, intervals)
    /\ intervals' = EmptyMap
    /\ started' = [e \in EventCodes |->
                      [started[e] EXCEPT !.state = IF @ = "active" THEN "stopped" ELSE @]]
    /\ lastOp' = [op |-> "cleanup", cleared |-> DOMAIN intervals]
    /\ UNCHANGED <<now, ticks, cache, nextTimerId, timeoutId, callLog, funcLog, lastSet>>

\* a revalidation interval runs its callback, here an opaque function of the caller
FireRevalidate(id) ==
    /\ Due(id)
    /\ timers[id].cb.fn = "revalidate"
    /\ timers' = TimersAfterFire(timers, id, now)
    /\ lastOp' = [op |-> "fire", id |-> id, eventCode |-> timers[id].cb.eventCode,
                  cb |-> timers[id].cb.name]
    /\ UNCHANGED <<now, ticks, cache, intervals, nextTimerId, timeoutId,
                   callLog, funcLog, lastSet, started>>

-----------------------------------------------------------------------------
(* galleryCache.ts: debounce utility.  One wrapper made by
   createDebouncedFunction(func, DebounceDelay). *)

DebounceDelay == 300

\* (variant: the pending timeout is not cleared)
TimersAfterCallNoClear(tm, pending, cb, id, t) ==
    SetTimer(tm, id, "timeout", cb, DebounceDelay, t)
\* the timer table after a call of the wrapper: clearTimeout(timeoutId), then
\* setTimeout(() => func(...args), delay) returning id
TimersAfterCall(tm, pending, cb, id, t) ==
    SetTimer(ClearTimer(tm, pending), id, "timeout", cb, DebounceDelay, t)

debounced(args) ==
    /\ nextTimerId <= MaxTimers
    /\ Len(callLog) < MaxCalls
    /\ timers' = TimersAfterCall(timers, timeoutId,
                                 [fn |-> "func", args |-> args, call |-> Len(callLog) + 1],
                                 nextTimerId, now)
    /\ timeoutId' = nextTimerId
    /\ nextTimerId' = nextTimerId + 1
    /\ callLog' = Append(callLog, [args |-> args, at |-> now])
    /\ lastOp' = [op |-> "call", args |-> args]
    /\ UNCHANGED <<now, ticks, cache, intervals, funcLog, lastSet, started>>

\* the wrapper's timeout runs: func(...args)
FireDebounced(id) ==
    /\ Due(id)
    /\ timers[id].cb.fn = "func"
    /\ timers' = TimersAfterFire(timers, id, now)
    /\ funcLog' = Append(funcLog, [args |-> timers[id].cb.args, at |-> now,
                                   call |-> timers[id].cb.call])
    /\ lastOp' = [op |-> "func", id |-> id, args |-> timers[id].cb.args]
    /\ UNCHANGED <<now, ticks, cache, intervals, nextTimerId, timeoutId,
                   callLog, lastSet, started>>

-----------------------------------------------------------------------------
(* Gallery.tsx: the Gallery component *)

REFRESH_DELAY == 100
FETCH_DEBOUNCE == 300

\* useState<FileObject[]>([]): the array a fresh instance displays
InitialFiles == [obj |-> <<"initial", 0>>, items |-> << >>]

\* the n-th row inserted into the media table
Row(n) == [filename |-> n, id |-> n, created_at |-> n,
           file_size |-> IF n % 2 = 1 THEN 0 ELSE 100,
           uploader_name |-> IF n % 2 = 1 THEN "" ELSE "Ann"]

\* the media table when the page loads: evt1 has a row, evt2 is a freshly
\* created event without uploads
InitialMedia == [e \in EventCodes |-> IF e = "evt1" THEN <<Row(1)>> ELSE << >>]

\* JavaScript v || d for a number and for a string
OrNum(v, d) == IF v = 0 THEN d ELSE v
OrStr(v, d) == IF v = "" THEN d ELSE v

\* (dbData || []).map(record => ({...})): database records to UI files
RecordToFile(record) ==
    [name |-> record.filename, id |-> record.id, created_at |-> record.created_at,
     size |-> OrNum(record.file_size, 0),
     uploader_name |-> OrStr(record.uploader_name, "Unknown")]

SortedFiles(dbData) == [i \in 1..Len(dbData) |-> RecordToFile(dbData[i])]

\* sortedFiles.map(file => ({...})): the copy handed to the cache
MappedFiles(sortedFiles) ==
    [i \in 1..Len(sortedFiles) |->
        [name |-> sortedFiles[i].name, id |-> sortedFiles[i].id,
         created_at |-> sortedFiles[i].created_at, size |-> sortedFiles[i].size,
         uploader_name |-> sortedFiles[i].uploader_name]]

\* JSON.stringify of an array of files: per element its keys, in insertion
\* order, with their values
JSONStringify(items) ==
    [i \in 1..Len(items) |->
        << <<"name", items[i].name>>, <<"id", items[i].id>>,
           <<"created_at", items[i].created_at>>, <<"size", items[i].size>>,
           <<"uploader_name", items[i].uploader_name>> >>]

\* (variant: the fetched array always replaces the displayed one)
FilesAlwaysReplaced(prevFiles, sortedFiles, obj) == [obj |-> obj, items |-> sortedFiles]
\* setFiles(prevFiles => ...) of a fetch whose sortedFiles is array object obj
FilesAfterFetch(prevFiles, sortedFiles, obj) ==
    IF JSONStringify(prevFiles.items) # JSONStringify(sortedFiles)
    THEN [obj |-> obj, items |-> sortedFiles]
    ELSE prevFiles

\* state updates reach instance i only while it is the mounted one
Alive(i) == mounted /\ inst = i

\* (variant: a background fetch sets loading too)
LoadingAfterStartAlways(isBackground, i, cur) == IF Alive(i) THEN TRUE ELSE cur
\* fetchFilesFromSupabase(isBackground) of instance i up to its await: the
\* request is on its way
LoadingAfterStart(isBackground, i, cur) ==
    IF ~isBackground /\ Alive(i) THEN TRUE ELSE cur

ErrorAfterStart(isBackground, i, cur) ==
    IF ~isBackground /\ Alive(i) THEN Null ELSE cur

FetchesAfterStart(fs, id, i, e, isBackground, origin) ==
    MapSet(fs, id, [inst |-> i, eventCode |-> e, isBackground |-> isBackground,
                    origin |-> origin, state |-> "sent", ok |-> FALSE,
                    data |-> << >>, message |-> ""])

\* the part of every action that starts a fetch
StartFetch(i, e, isBackground, origin) ==
    /\ loading' = LoadingAfterStart(isBackground, i, loading)
    /\ error' = ErrorAfterStart(isBackground, i, error)
    /\ fetches' = FetchesAfterStart(fetches, nextFetchId, i, e, isBackground, origin)
    /\ nextFetchId' = nextFetchId + 1

\* loadFilesWithCache with a fresh cache entry: render it, refresh later
MountFromCache(e, cached) ==
    /\ files' = [obj |-> <<"cached", 0>>, items |-> cached.files]
    /\ loading' = FALSE
    /\ error' = Null
    /\ timers' = SetTimer(timers, nextTimerId, "timeout",
                          [fn |-> "bgRefresh", inst |-> inst + 1, eventCode |-> e],
                          REFRESH_DELAY, now)
    /\ nextTimerId' = nextTimerId + 1
    /\ UNCHANGED <<fetches, nextFetchId>>

\* loadFilesWithCache without one: fetch immediately
MountAndFetch(e) ==
    /\ files' = InitialFiles
    /\ loading' = TRUE
    /\ error' = Null
    /\ fetches' = FetchesAfterStart(fetches, nextFetchId, inst + 1, e, FALSE, "mount")
    /\ nextFetchId' = nextFetchId + 1
    /\ UNCHANGED <<timers, nextTimerId>>

\* a Gallery for event code e mounts and its effects run: the initial load
Mount(e) ==
    /\ ~mounted
    /\ mounted' = TRUE
    /\ inst' = inst + 1
    /\ galleryEvent' = e
    /\ isInitialLoad' = FALSE
    /\ lastRefreshKey' = refreshKey
    /\ cache' = GetEffect(cache, e, now)
    /\ IF GetResult(cache, e, now) # Null
       THEN MountFromCache(e, GetResult(cache, e, now))
       ELSE MountAndFetch(e)
    /\ lastOp' = [op |-> "mount", eventCode |-> e, cached |-> GetResult(cache, e, now)]
    /\ UNCHANGED <<lightboxVars, uploadVars, completed, now, ticks, intervals, timeoutId, callLog, funcLog, lastSet, started,
                   refreshKey, media, toasts>>

\* the Gallery unmounts: the cleanup of its effects
Unmount ==
    /\ mounted
    /\ mounted' = FALSE
    /\ timers' = TimersAfterStop(timers, intervals, galleryEvent)
    /\ intervals' = IntervalsAfterStop(intervals, galleryEvent)
    /\ files' = InitialFiles
    /\ loading' = TRUE
    /\ error' = Null
    /\ isInitialLoad' = TRUE
    /\ lightboxOpen' = FALSE
    /\ activeIndex' = 0
    /\ activeTitle' = ""
    /\ lastOp' = [op |-> "unmount", eventCode |-> galleryEvent]
    /\ UNCHANGED <<uploadVars, completed, now, ticks, cache, nextTimerId, timeoutId, callLog, funcLog, lastSet,
                   started, inst, galleryEvent, refreshKey, lastRefreshKey, media, fetches,
                   nextFetchId, toasts>>

\* the parent changes refreshKey; the effect of a mounted Gallery runs
\* debouncedFetchFiles(), whose returned cancel function is dropped
Refresh ==
    /\ refreshKey' = refreshKey + 1
    /\ IF mounted
       THEN /\ lastRefreshKey' = refreshKey + 1
            /\ timers' = SetTimer(timers, nextTimerId, "timeout",
                                  [fn |-> "debouncedFetch", inst |-> inst,
                                   eventCode |-> galleryEvent],
                                  FETCH_DEBOUNCE, now)
            /\ nextTimerId' = nextTimerId + 1
       ELSE UNCHANGED <<lastRefreshKey, timers, nextTimerId>>
    /\ lastOp' = [op |-> "refresh"]
    /\ UNCHANGED <<lightboxVars, uploadVars, completed, now, ticks, cache, intervals, timeoutId, callLog, funcLog, lastSet,
                   started, mounted, inst, galleryEvent, files, loading, error,
                   isInitialLoad, media, fetches, nextFetchId, toasts>>

\* a timer of the Gallery runs and calls fetchFilesFromSupabase
FireFetchTimer(id, fn, isBackground) ==
    /\ Due(id)
    /\ timers[id].cb.fn = fn
    /\ timers' = TimersAfterFire(timers, id, now)
    /\ StartFetch(timers[id].cb.inst, timers[id].cb.eventCode, isBackground, fn)
    /\ lastOp' = [op |-> "timer", fn |-> fn, id |-> id, inst |-> timers[id].cb.inst,
                  eventCode |-> timers[id].cb.eventCode, fetch |-> nextFetchId,
                  loadingBefore |-> loading]
    /\ UNCHANGED <<lightboxVars, uploadVars, completed, now, ticks, cache, intervals, nextTimerId, timeoutId, callLog, funcLog,
                   lastSet, started, mounted, inst, galleryEvent, refreshKey, files,
                   isInitialLoad, lastRefreshKey, media, toasts>>

\* setTimeout(() => fetchFilesFromSupabase(true), 100) of loadFilesWithCache
FireBgRefresh == \E id \in DOMAIN timers : FireFetchTimer(id, "bgRefresh", TRUE)
\* setTimeout(() => fetchFilesFromSupabase(), 300) of debouncedFetchFiles
FireDebouncedFetch == \E id \in DOMAIN timers : FireFetchTimer(id, "debouncedFetch", FALSE)
\* the empty-gallery interval: () => fetchFilesFromSupabase(true)
FirePoll == \E id \in DOMAIN timers : FireFetchTimer(id, "poll", TRUE)

\* the backend answers a request with the rows it holds, or with an error
BackendAnswer(id, ok) ==
    /\ id \in DOMAIN fetches
    /\ fetches[id].state = "sent"
    /\ fetches' = [fetches EXCEPT ![id] =
                      [@ EXCEPT !.state = "answered", !.ok = ok,
                                !.data = IF ok THEN media[fetches[id].eventCode] ELSE << >>,
                                !.message = IF ok THEN "" ELSE "db error"]]
    /\ lastOp' = [op |-> "answer", id |-> id, ok |-> ok]
    /\ UNCHANGED <<lightboxVars, uploadVars, completed, now, ticks, cache, intervals, timers, nextTimerId, timeoutId, callLog,
                   funcLog, lastSet, started, mounted, inst, galleryEvent, refreshKey, files,
                   loading, error, isInitialLoad, lastRefreshKey, media, nextFetchId,
                   toasts>>

\* a media row is inserted for event code e (an upload by any client)
Upload(e) ==
    /\ media' = [media EXCEPT ![e] = <<Row(Len(media[e]) + 1)>> \o media[e]]
    /\ lastOp' = [op |-> "upload", eventCode |-> e]
    /\ UNCHANGED <<lightboxVars, uploadVars, completed, now, ticks, cache, intervals, timers, nextTimerId, timeoutId, callLog,
                   funcLog, lastSet, started, mounted, inst, galleryEvent, refreshKey, files,
                   loading, error, isInitialLoad, lastRefreshKey, fetches, nextFetchId,
                   toasts>>

\* (variant: the finally block leaves loading alone)
LoadingKeptAtFinally(isBackground, i, cur) == cur
\* finally: if (!isBackground) setLoading(false)
LoadingAfterFinally(isBackground, i, cur) ==
    IF ~isBackground /\ Alive(i) THEN FALSE ELSE cur

\* history of the successful fetches of an event code
NoneCompleted == [id |-> 0, files |-> Null, nonEmpty |-> FALSE]
CompletedAfter(log, id, f) ==
    IF f.ok
    THEN [log EXCEPT ![f.eventCode] =
             [id |-> id, files |-> MappedFiles(SortedFiles(f.data)),
              nonEmpty |-> @.nonEmpty \/ Len(f.data) > 0]]
    ELSE log

\* fetchFilesFromSupabase resumes with data: cache, files, revalidation, finally
ResolveOk(id) ==
    LET f == fetches[id]
        sortedFiles == SortedFiles(f.data)
    IN  /\ f.state = "answered" /\ f.ok
        /\ cache' = SetEffect(cache, f.eventCode, MappedFiles(sortedFiles), now)
        /\ files' = IF Alive(f.inst)
                    THEN FilesAfterFetch(files, sortedFiles, <<"sortedFiles", id>>)
                    ELSE files
        /\ IF Len(sortedFiles) = 0
           THEN /\ timers' = TimersAfterStart(timers, intervals, f.eventCode,
                                              [fn |-> "poll", inst |-> f.inst,
                                               eventCode |-> f.eventCode],
                                              nextTimerId, now)
                /\ intervals' = IntervalsAfterStart(intervals, f.eventCode, nextTimerId)
                /\ nextTimerId' = nextTimerId + 1
           ELSE /\ timers' = TimersAfterStop(timers, intervals, f.eventCode)
                /\ intervals' = IntervalsAfterStop(intervals, f.eventCode)
                /\ UNCHANGED nextTimerId
        /\ loading' = LoadingAfterFinally(f.isBackground, f.inst, loading)
        /\ UNCHANGED <<error, toasts>>

\* catch: setError(errorMessage), for foreground and background fetches alike
ErrorAfterFailure(cur, i, message) ==
    IF Alive(i) THEN [message |-> message] ELSE cur

\* (variant: the failure raises no notification)
ToastsAfterFailureNone(ts, isBackground, message) == ts
\* catch: if (!isBackground) showToast(errorMessage, 'error')
ToastsAfterFailure(ts, isBackground, message) ==
    IF ~isBackground
    THEN Append(ts, [message |-> message, type |-> "error"])
    ELSE ts

\* (variant: a failure drops the cached listing of the event code)
CacheDroppedOnFailure(c, eventCode) == MapDelete(c, eventCode)
\* catch and finally never call the cache: the map after a failed fetch
CacheAfterFailure(c, eventCode) == c

\* fetchFilesFromSupabase resumes with an error: catch, finally
ResolveError(id) ==
    LET f == fetches[id]
    IN  /\ f.state = "answered" /\ ~f.ok
        /\ error' = ErrorAfterFailure(error, f.inst, f.message)
        /\ toasts' = ToastsAfterFailure(toasts, f.isBackground, f.message)
        /\ loading' = LoadingAfterFinally(f.isBackground, f.inst, loading)
        /\ cache' = CacheAfterFailure(cache, f.eventCode)
        /\ UNCHANGED <<files, timers, intervals, nextTimerId>>

Resolve(id) ==
    /\ id \in DOMAIN fetches
    /\ ResolveOk(id) \/ ResolveError(id)
    /\ fetches' = MapDelete(fetches, id)
    /\ completed' = CompletedAfter(completed, id, fetches[id])
    /\ lastOp' = [op |-> "resolve", id |-> id, fetch |-> fetches[id],
                  completedBefore |-> completed[fetches[id].eventCode],
                  alive |-> Alive(fetches[id].inst),
                  filesBefore |-> files, loadingBefore |-> loading,
                  errorBefore |-> error, toastsBefore |-> toasts,
                  cacheBefore |-> cache, timersBefore |-> timers,
                  intervalsBefore |-> intervals]
    /\ UNCHANGED <<now, ticks, timeoutId, callLog, funcLog, lastSet, started, mounted,
                   inst, galleryEvent, refreshKey, isInitialLoad, lastRefreshKey, media,
                   nextFetchId, lightboxVars, uploadVars>>

-----------------------------------------------------------------------------
(* Module load *)

Init ==
    /\ now = 0
    /\ ticks = 0
    /\ cache = EmptyMap
    /\ intervals = EmptyMap
    /\ timers = EmptyMap
    /\ nextTimerId = 1
    /\ timeoutId = 0
    /\ callLog = << >>
    /\ funcLog = << >>
    /\ lastSet = [e \in EventCodes |-> NeverSet]
    /\ started = [e \in EventCodes |-> NeverStarted]
    /\ lastOp = [op |-> "load"]
    /\ mounted = FALSE
    /\ inst = 0
    /\ galleryEvent = ""
    /\ refreshKey = 0
    /\ files = InitialFiles
    /\ loading = TRUE
    /\ error = Null
    /\ isInitialLoad = TRUE
    /\ lastRefreshKey = 0
    /\ media = InitialMedia
    /\ fetches = EmptyMap
    /\ nextFetchId = 1
    /\ toasts = << >>
    /\ completed = [e \in EventCodes |-> NoneCompleted]
    /\ lightboxOpen = FALSE
    /\ activeIndex = 0
    /\ activeTitle = ""
    /\ uploadFiles = << >>
    /\ retryCalls = EmptyMap
    /\ events = 0

-----------------------------------------------------------------------------
(* The cache under an arbitrary caller *)

CacheSteps == {1, CACHE_DURATION - 1, CACHE_DURATION}

TickCache ==
    /\ \E d \in CacheSteps : Advance(d)
    /\ lastOp' = [op |-> "tick"]
    /\ UNCHANGED <<cache, intervals, timers, nextTimerId, timeoutId,
                   callLog, funcLog, lastSet, started>>
    /\ UNCHANGED galleryVars

CallGet == UNCHANGED galleryVars /\ \E e \in EventCodes : getCachedListing(e)
CallSet == UNCHANGED galleryVars /\ \E e \in EventCodes, F \in Listings : setCachedListing(e, F)
CallInvalidate == UNCHANGED galleryVars /\ \E e \in EventCodes : invalidateCache(e)
CallClear == UNCHANGED galleryVars /\ clearCache

NextCache == TickCache \/ CallGet \/ CallSet \/ CallInvalidate \/ CallClear

SpecCache == Init /\ [][NextCache]_vars

\* the last operation was getCachedListing(e)
IsGet(e) == lastOp.op = "get" /\ lastOp.eventCode = e

(* C1: getCachedListing(e) after setCachedListing(e, F), with no set,
   invalidate or clear on e in between and at most CACHE_DURATION ms on the
   clock since the set, returns an entry whose files are F. *)
C1_GetAfterSetReturnsFiles ==
    \A e \in EventCodes :
        (IsGet(e) /\ lastSet[e].state = "set" /\ now - lastSet[e].at <= CACHE_DURATION)
            => (lastOp.ret # Null /\ lastOp.ret.files = lastSet[e].files)

\* a read exactly CACHE_DURATION ms after the set still returns the two-file listing
C1_Witness ==
    /\ IsGet("evt1")
    /\ lastSet["evt1"].state = "set"
    /\ now - lastSet["evt1"].at = CACHE_DURATION
    /\ lastOp.ret # Null
    /\ lastOp.ret.files = <<FileB, FileA>>

(* C2: once more than CACHE_DURATION ms have passed since the last
   setCachedListing(e, ...), getCachedListing(e) returns null and the entry
   for e is gone from the cache map afterwards. *)
C2_ExpiredGetEvicts ==
    \A e \in EventCodes :
        (IsGet(e) /\ lastSet[e].state = "set" /\ now - lastSet[e].at > CACHE_DURATION)
            => (lastOp.ret = Null /\ e \notin DOMAIN cache)

\* a read one millisecond past the window, the other event's entry still stored
C2_Witness ==
    /\ IsGet("evt1")
    /\ lastSet["evt1"].state = "set"
    /\ now - lastSet["evt1"].at = CACHE_DURATION + 1
    /\ lastOp.ret = Null
    /\ DOMAIN cache = {"evt2"}

(* C3: after invalidateCache(e), getCachedListing(e) returns null whatever
   the age of the entry that was stored, until a new setCachedListing(e, ...). *)
C3_InvalidateThenGetIsNull ==
    \A e \in EventCodes :
        /\ (lastOp.op = "invalidate" /\ lastOp.eventCode = e) => e \notin DOMAIN cache
        /\ (IsGet(e) /\ lastSet[e].state = "invalidated") => lastOp.ret = Null

\* a read of an invalidated entry that was stored this very millisecond
C3_Witness ==
    /\ IsGet("evt2")
    /\ lastSet["evt2"].state = "invalidated"
    /\ lastSet["evt2"].at = now
    /\ now > 0
    /\ lastSet["evt2"].files = <<FileA>>
    /\ lastOp.ret = Null

(* C4: setCachedListing(e, F2) replaces any prior entry for e completely:
   the entry's files are exactly F2 and its timestamp is the time of this
   latest set, so every stored entry is the latest set of its event code. *)
C4_SetOverwrites ==
    /\ lastOp.op = "set" =>
          cache[lastOp.eventCode] = [files |-> lastOp.files, timestamp |-> now,
                                     eventCode |-> lastOp.eventCode]
    /\ \A e \in DOMAIN cache :
          /\ lastSet[e].state = "set"
          /\ cache[e].files = lastSet[e].files
          /\ cache[e].timestamp = lastSet[e].at

\* a one-file listing stored over an older two-file listing
C4_Witness ==
    /\ lastOp.op = "set"
    /\ lastOp.replaced # Null
    /\ lastOp.replaced.files = <<FileB, FileA>>
    /\ lastOp.replaced.timestamp < now
    /\ lastOp.files = <<FileA>>

-----------------------------------------------------------------------------
(* The revalidation scheduler under an arbitrary caller *)

Callbacks == {"cb", "cb2"}

TimerSteps == {1, EMPTY_REVALIDATION_INTERVAL - 1}

TickTimers ==
    /\ \E d \in TimerSteps : Advance(d)
    /\ lastOp' = [op |-> "tick"]
    /\ UNCHANGED <<cache, intervals, timers, nextTimerId, timeoutId,
                   callLog, funcLog, lastSet, started>>
    /\ UNCHANGED galleryVars

CallStart ==
    UNCHANGED galleryVars /\ \E e \in EventCodes, cb \in Callbacks : startEmptyGalleryRevalidation(e, cb)
CallStop == UNCHANGED galleryVars /\ \E e \in EventCodes : stopEmptyGalleryRevalidation(e)
CallCleanup == UNCHANGED galleryVars /\ cleanupAllIntervals
RunInterval == UNCHANGED galleryVars /\ \E id \in DOMAIN timers : FireRevalidate(id)

NextTimers == TickTimers \/ CallStart \/ CallStop \/ CallCleanup \/ RunInterval

SpecTimers == Init /\ [][NextTimers]_vars

\* the cache with revalidation intervals running next to it
StartBeside ==
    /\ UNCHANGED galleryVars
    /\ nextTimerId <= MaxStarts
    /\ \E e \in EventCodes : startEmptyGalleryRevalidation(e, "cb")

SetBeside ==
    UNCHANGED galleryVars /\ \E e \in EventCodes : setCachedListing(e, <<FileA>>)

NextClear == TickCache \/ CallGet \/ SetBeside \/ CallClear \/ StartBeside

SpecClear == Init /\ [][NextClear]_vars

\* the live interval timers whose callback revalidates event code e
LiveFor(e) == {id \in DOMAIN timers :
                  timers[id].kind = "interval" /\ timers[id].cb.eventCode = e}

(* C5: after any sequence of start / stop / cleanup calls there is at most
   one live interval timer per event code; start(e, cb) followed by
   start(e, cb2) leaves exactly one timer for e, and every callback a timer
   of e runs is the one passed to the latest start(e, ...). *)
C5_OneTimerPerEvent ==
    /\ \A e \in EventCodes : Cardinality(LiveFor(e)) <= 1
    /\ lastOp.op = "start" =>
          /\ Cardinality(LiveFor(lastOp.eventCode)) = 1
          /\ \A id \in LiveFor(lastOp.eventCode) : timers[id].cb.name = lastOp.cb
    /\ lastOp.op = "fire" => lastOp.cb = started[lastOp.eventCode].cb

\* cb2 runs for evt1 after start(evt1, cb) was replaced by start(evt1, cb2)
C5_Witness ==
    /\ lastOp.op = "fire"
    /\ lastOp.eventCode = "evt1"
    /\ lastOp.cb = "cb2"
    /\ started["evt1"].prev = "cb"

(* C6: after stopEmptyGalleryRevalidation(e) following a start(e, cb), the
   timer that start created never runs cb again, however much time passes,
   unless a new start(e, ...) is issued: a timer that runs is the one of a
   start not yet stopped, and a stopped event code has no live timer. *)
C6_StoppedNeverFires ==
    /\ lastOp.op = "fire" =>
          /\ started[lastOp.eventCode].state = "active"
          /\ started[lastOp.eventCode].id = lastOp.id
    /\ \A e \in EventCodes : started[e].state = "stopped" => LiveFor(e) = {}

\* evt1 was started and stopped and its interval has since elapsed, while the
\* timer of evt2 runs
C6_Witness ==
    /\ started["evt1"].state = "stopped"
    /\ now >= started["evt1"].at + EMPTY_REVALIDATION_INTERVAL
    /\ lastOp.op = "fire"
    /\ lastOp.eventCode = "evt2"

-----------------------------------------------------------------------------
(* The debounced wrapper under an arbitrary caller *)

Args == {"x", "y"}

DebounceSteps == {1, DebounceDelay - 1, DebounceDelay}

TickDebounce ==
    /\ \E d \in DebounceSteps : Advance(d)
    /\ lastOp' = [op |-> "tick"]
    /\ UNCHANGED <<cache, intervals, timers, nextTimerId, timeoutId,
                   callLog, funcLog, lastSet, started>>
    /\ UNCHANGED galleryVars

CallDebounced == UNCHANGED galleryVars /\ \E a \in Args : debounced(a)
RunTimeout == UNCHANGED galleryVars /\ \E id \in DOMAIN timers : FireDebounced(id)

NextDebounce == TickDebounce \/ CallDebounced \/ RunTimeout

SpecDebounce == Init /\ [][NextDebounce]_vars

\* every call so far came less than DebounceDelay ms after the one before it
OneBurst ==
    \A j \in 1..(Len(callLog) - 1) : callLog[j + 1].at - callLog[j].at < DebounceDelay

(* C7: n >= 1 calls of the wrapper, each made less than delay after the one
   before, result in exactly one invocation of func, made no earlier than
   delay after the last call and carrying the last call's arguments; each new
   call cancels the invocation pending from the previous call. *)
C7_DebounceCollapses ==
    /\ Cardinality(DOMAIN timers) <= 1
    /\ \A id \in DOMAIN timers : id = timeoutId /\ timers[id].cb.call = Len(callLog)
    /\ (OneBurst /\ Len(callLog) >= 1) =>
          /\ Len(funcLog) <= 1
          /\ timers # EmptyMap => funcLog = << >>
          /\ timers = EmptyMap =>
                /\ Len(funcLog) = 1
                /\ funcLog[1].args = callLog[Len(callLog)].args
                /\ funcLog[1].call = Len(callLog)
                /\ funcLog[1].at >= callLog[Len(callLog)].at + DebounceDelay

\* three calls within the delay, the first and the last at different times and
\* with different arguments, then the single invocation
C7_Witness ==
    /\ Len(callLog) = 3
    /\ OneBurst
    /\ callLog[1].at < callLog[3].at
    /\ callLog[1].args # callLog[3].args
    /\ Len(funcLog) = 1
    /\ funcLog[1].args = callLog[3].args

-----------------------------------------------------------------------------
(* The Gallery with the cache and the scheduler, the backend and the clock *)

GallerySteps == {REFRESH_DELAY, EMPTY_REVALIDATION_INTERVAL, CACHE_DURATION + 1}

\* an event of the environment (the user, the parent, other clients of the
\* backend, the clock) uses up one unit of the run's budget
EnvStep == events < MaxEvents /\ events' = events + 1
\* a step of the program's own: a timer runs, a response arrives
SysStep == UNCHANGED events

TickGallery ==
    /\ EnvStep
    /\ \E d \in GallerySteps : now' = now + d
    /\ lastOp' = [op |-> "tick"]
    /\ UNCHANGED <<ticks, cache, intervals, timers, nextTimerId, timeoutId,
                   callLog, funcLog, lastSet, started, mounted, inst, galleryEvent,
                   refreshKey, files, loading, error, isInitialLoad, lastRefreshKey,
                   media, fetches, nextFetchId, toasts, completed, lightboxVars,
                   uploadVars>>

DoMount == EnvStep /\ \E e \in EventCodes : Mount(e)
DoUnmount == EnvStep /\ Unmount
DoRefresh == EnvStep /\ Refresh
DoUpload == EnvStep /\ \E e \in EventCodes : Upload(e)
DoAnswer == SysStep /\ \E id \in DOMAIN fetches, ok \in BOOLEAN : BackendAnswer(id, ok)
DoResolve == SysStep /\ \E id \in DOMAIN fetches : Resolve(id)
RunBgRefresh == SysStep /\ FireBgRefresh
RunDebouncedFetch == SysStep /\ FireDebouncedFetch
RunPoll == SysStep /\ FirePoll

Next ==
    \/ TickGallery
    \/ DoMount
    \/ DoUnmount
    \/ DoRefresh
    \/ DoUpload
    \/ DoAnswer
    \/ DoResolve
    \/ RunBgRefresh
    \/ RunDebouncedFetch
    \/ RunPoll

Spec == Init /\ [][Next]_vars

\* the fetches in flight and the live timers of instance i, by origin
FetchesOf(i, origin) ==
    {id \in DOMAIN fetches : fetches[id].inst = i /\ fetches[id].origin = origin}
TimersOf(i, fn) ==
    {id \in DOMAIN timers : timers[id].cb.fn = fn /\ timers[id].cb.inst = i}

(* C8: when the Gallery mounts and the cache holds a fresh entry for its
   event code, the displayed listing is the cached files and loading is false
   at once, with no fetch in flight for the instance, and exactly one
   background fetch is scheduled REFRESH_DELAY ms later; that fetch runs with
   isBackground = true and neither its start nor its completion changes
   loading. *)
C8_MountFromCache ==
    /\ (lastOp.op = "mount" /\ lastOp.cached # Null) =>
          /\ files.items = lastOp.cached.files
          /\ loading = FALSE
          /\ \A id \in DOMAIN fetches : fetches[id].inst # inst
          /\ Cardinality(TimersOf(inst, "bgRefresh")) = 1
          /\ \A id \in TimersOf(inst, "bgRefresh") :
                timers[id].kind = "timeout" /\ timers[id].due = now + REFRESH_DELAY
    /\ \A i \in 1..inst :
          Cardinality(TimersOf(i, "bgRefresh")) + Cardinality(FetchesOf(i, "bgRefresh")) <= 1
    /\ (lastOp.op = "timer" /\ lastOp.fn = "bgRefresh") =>
          /\ fetches[lastOp.fetch].isBackground
          /\ loading = lastOp.loadingBefore
    /\ (lastOp.op = "resolve" /\ lastOp.fetch.isBackground) =>
          loading = lastOp.loadingBefore

\* the refresh timer of a Gallery that shows a cached one-file listing runs
C8_Witness ==
    /\ lastOp.op = "timer"
    /\ lastOp.fn = "bgRefresh"
    /\ mounted
    /\ lastOp.inst = inst
    /\ files.obj = <<"cached", 0>>
    /\ Len(files.items) = 1
    /\ ~loading
    /\ FetchesOf(inst, "bgRefresh") # {}

(* C9: when the Gallery mounts and the cache holds no fresh entry for its
   event code, a foreground fetch is issued immediately; loading stays true
   until that fetch resolves; then the gallery is ready (loading false, error
   null, listing = fetched listing) on success or in error (loading false,
   error message set) on failure. *)
C9_ColdMountLoadsUntilResolved ==
    /\ (lastOp.op = "mount" /\ lastOp.cached = Null) =>
          /\ Cardinality(FetchesOf(inst, "mount")) = 1
          /\ \A id \in FetchesOf(inst, "mount") : ~fetches[id].isBackground
    /\ (mounted /\ FetchesOf(inst, "mount") # {}) => loading
    /\ (lastOp.op = "resolve" /\ lastOp.fetch.origin = "mount" /\ lastOp.alive) =>
          /\ ~loading
          /\ lastOp.fetch.ok =>
                (error = Null /\ files.items = SortedFiles(lastOp.fetch.data))
          /\ ~lastOp.fetch.ok => error = [message |-> lastOp.fetch.message]

(* C10: every successful fetch writes the fetched listing into the cache
   under its event code with the current time as timestamp; the displayed
   listing of its mounted Gallery is replaced only when the fetched listing's
   JSON differs from the displayed one's, and afterwards it is content-equal
   to the fetched listing. *)
C10_FetchUpdatesCacheAndFiles ==
    (lastOp.op = "resolve" /\ lastOp.fetch.ok) =>
        LET f == lastOp.fetch
            sortedFiles == SortedFiles(f.data)
            same == JSONStringify(lastOp.filesBefore.items) = JSONStringify(sortedFiles)
        IN  /\ f.eventCode \in DOMAIN cache
            /\ cache[f.eventCode] = [files |-> sortedFiles, timestamp |-> now,
                                     eventCode |-> f.eventCode]
            /\ lastOp.alive =>
                  /\ JSONStringify(files.items) = JSONStringify(sortedFiles)
                  /\ same => files = lastOp.filesBefore
                  /\ ~same => files = [obj |-> <<"sortedFiles", lastOp.id>>,
                                       items |-> sortedFiles]

\* a background refresh brings the listing the Gallery already shows from the
\* cache: the displayed array is kept, the cache entry is stamped anew
C10_Witness ==
    /\ lastOp.op = "resolve"
    /\ lastOp.fetch.ok
    /\ lastOp.alive
    /\ lastOp.fetch.isBackground
    /\ files.obj = <<"cached", 0>>
    /\ Len(files.items) = 1
    /\ now > 0
    /\ cache[lastOp.fetch.eventCode].timestamp = now

\* the last step was the completion of a failed fetch of the mounted Gallery
FailedResolve(isBackground) ==
    /\ lastOp.op = "resolve"
    /\ ~lastOp.fetch.ok
    /\ lastOp.fetch.isBackground = isBackground
    /\ lastOp.alive

(* C11: a failed background refresh (the post-cache refresh or an
   empty-gallery poll) is swallowed silently: the gallery's visible state is
   unchanged, no error is shown, no notification is raised, and the listing
   displayed before remains displayed. *)
C11_BackgroundFailureSilent ==
    FailedResolve(TRUE) =>
        /\ error = lastOp.errorBefore
        /\ files = lastOp.filesBefore
        /\ loading = lastOp.loadingBefore
        /\ toasts = lastOp.toastsBefore

(* C12: a failed foreground fetch puts the gallery in the error state (error
   message set, loading false) and raises exactly one error notification
   carrying the failure message. *)
C12_ForegroundFailureSurfaces ==
    /\ FailedResolve(FALSE) =>
          /\ error = [message |-> lastOp.fetch.message]
          /\ loading = FALSE
    /\ (lastOp.op = "resolve" /\ ~lastOp.fetch.ok /\ ~lastOp.fetch.isBackground) =>
          toasts = Append(lastOp.toastsBefore,
                          [message |-> lastOp.fetch.message, type |-> "error"])

\* the mount fetch of a mounted Gallery fails: error panel and one toast
C12_Witness ==
    /\ FailedResolve(FALSE)
    /\ lastOp.fetch.origin = "mount"
    /\ lastOp.errorBefore = Null
    /\ error = [message |-> "db error"]
    /\ Len(toasts) = 1
    /\ ~loading

\* the live revalidation timers of event code e
PollTimers(e) ==
    {id \in DOMAIN timers : timers[id].cb.fn = "poll" /\ timers[id].cb.eventCode = e}

(* C13: polling is confined to the empty-gallery case: once a successful
   fetch for e has returned a non-empty listing (and the backend listing
   stays non-empty), the revalidation timer for e is stopped and no polling
   callback for e fires, whatever the interleaving of in-flight fetches. *)
C13_NoPollingOnceNonEmpty ==
    /\ \A e \in EventCodes :
          (completed[e].nonEmpty /\ Len(media[e]) > 0) =>
              (e \notin DOMAIN intervals /\ PollTimers(e) = {})
    /\ (lastOp.op = "timer" /\ lastOp.fn = "poll") =>
          ~completed[lastOp.eventCode].nonEmpty

\* the pending 300 ms timeouts of debouncedFetchFiles
DebounceTimers == {id \in DOMAIN timers : timers[id].cb.fn = "debouncedFetch"}

(* C14: refresh triggers on a mounted Gallery are debounced: triggers that
   each arrive within the 300 ms delay of the previous one produce one
   foreground fetch, so no two timeouts of debouncedFetchFiles of one
   instance are pending with due times less than 300 ms apart (the earlier
   one is cancelled by the later trigger). *)
C14_RefreshTriggersCoalesce ==
    \A a, b \in DebounceTimers :
        (a < b /\ timers[a].cb.inst = timers[b].cb.inst) =>
            timers[b].due - timers[a].due >= FETCH_DEBOUNCE

(* C15: the empty-gallery revalidation timer does not outlive the component:
   a revalidation timer for e is live only while a Gallery for e is mounted,
   also when a fetch in flight at unmount resolves afterwards with an empty
   listing. *)
C15_NoPollTimerAfterUnmount ==
    \A e \in EventCodes :
        (e \in DOMAIN intervals \/ PollTimers(e) # {}) =>
            (mounted /\ galleryEvent = e)

(* C16: pending delay timers are cancelled on unmount: the 300 ms debounce
   timeout and the 100 ms post-cache timeout never run, and never issue a
   fetch, for a component that has unmounted. *)
C16_NoDelayedFetchAfterUnmount ==
    (lastOp.op = "timer" /\ lastOp.fn \in {"debouncedFetch", "bgRefresh"}) =>
        Alive(lastOp.inst)

\* the last step completed a successful fetch issued before the one that had
\* completed last for the same event code: the two fetches overlapped
OutOfOrderCompletion ==
    /\ lastOp.op = "resolve"
    /\ lastOp.fetch.ok
    /\ lastOp.completedBefore.id > lastOp.id

(* C17: of overlapping successful fetches for one event code, the response
   that completed last is the one the cache holds, whatever the order in
   which the requests were issued; no response is discarded for being
   older. *)
C17_LastCompletedWins ==
    /\ \A e \in DOMAIN cache : cache[e].files = completed[e].files
    /\ OutOfOrderCompletion =>
          /\ lastOp.fetch.eventCode \in DOMAIN cache
          /\ cache[lastOp.fetch.eventCode] =
                [files |-> MappedFiles(SortedFiles(lastOp.fetch.data)),
                 timestamp |-> now,
                 eventCode |-> lastOp.fetch.eventCode]

\* the older, empty response completes after the newer, non-empty one and
\* replaces it in the cache
C17_Witness ==
    /\ OutOfOrderCompletion
    /\ lastOp.completedBefore.files # << >>
    /\ lastOp.fetch.data = << >>
    /\ cache[lastOp.fetch.eventCode].files = << >>
    /\ media[lastOp.fetch.eventCode] # << >>

(* C18: after clearCache(), getCachedListing(e) returns null for every
   event code e until a new setCachedListing(e, ...); clearCache leaves the
   revalidation timers untouched. *)
C18_ClearEmptiesCacheOnly ==
    /\ lastOp.op = "clear" =>
          /\ cache = EmptyMap
          /\ timers = lastOp.timersBefore
          /\ intervals = lastOp.intervalsBefore
    /\ \A e \in EventCodes :
          (IsGet(e) /\ lastSet[e].state = "cleared") => lastOp.ret = Null

\* clearCache drops two fresh entries while an interval is registered
C18_Witness ==
    /\ lastOp.op = "clear"
    /\ DOMAIN lastOp.before = EventCodes
    /\ \A e \in EventCodes : ~IsExpired(lastOp.before[e], now)
    /\ DOMAIN intervals = {"evt1"}
    /\ intervals["evt1"] \in DOMAIN timers

\* maps c and d agree on key k: both lack it or both hold the same value
SameAt(c, d, k) ==
    /\ k \in DOMAIN c <=> k \in DOMAIN d
    /\ k \in DOMAIN c => c[k] = d[k]

(* C19: getCachedListing(e) has no effect other than the lazy eviction of an
   expired entry for e: the entries of the other event codes are unchanged,
   and a fresh entry for e keeps its files and its timestamp (a read does
   not extend the freshness window). *)
C19_GetOnlyEvictsExpired ==
    lastOp.op = "get" =>
        /\ \A k \in EventCodes \ {lastOp.eventCode} : SameAt(cache, lastOp.before, k)
        /\ (lastOp.eventCode \in DOMAIN lastOp.before
              /\ now - lastOp.before[lastOp.eventCode].timestamp <= CACHE_DURATION)
             => SameAt(cache, lastOp.before, lastOp.eventCode)
        /\ lastOp.eventCode \notin DOMAIN lastOp.before
             => lastOp.eventCode \notin DOMAIN cache
        /\ DOMAIN cache \subseteq DOMAIN lastOp.before

\* a fresh entry read some time after it was stored, next to an expired
\* entry of the other event code that the read leaves in place
C19_Witness ==
    /\ IsGet("evt1")
    /\ lastOp.ret # Null
    /\ lastOp.ret.timestamp < now
    /\ cache["evt1"].timestamp = lastOp.ret.timestamp
    /\ "evt2" \in DOMAIN cache
    /\ IsExpired(cache["evt2"], now)

(* C20: stopEmptyGalleryRevalidation(e) is idempotent: called when no timer
   exists for e (never started, or already stopped) it changes nothing,
   called twice in a row it leaves the state the first call left, and the
   timers of the other event codes are never affected. *)
C20_StopIdempotent ==
    lastOp.op = "stop" =>
        /\ lastOp.eventCode \notin DOMAIN lastOp.intervalsBefore =>
              (timers = lastOp.timersBefore /\ intervals = lastOp.intervalsBefore)
        /\ lastOp.repeated =>
              (timers = lastOp.timersBefore /\ intervals = lastOp.intervalsBefore)
        /\ lastOp.eventCode \notin DOMAIN intervals
        /\ LiveFor(lastOp.eventCode) = {}
        /\ \A k \in EventCodes \ {lastOp.eventCode} :
              SameAt(intervals, lastOp.intervalsBefore, k)
        /\ \A id \in DOMAIN lastOp.timersBefore :
              lastOp.timersBefore[id].cb.eventCode # lastOp.eventCode =>
                  (id \in DOMAIN timers /\ timers[id] = lastOp.timersBefore[id])

\* stop(evt1) right after stop(evt1), the interval of evt2 still registered
C20_Witness ==
    /\ lastOp.op = "stop"
    /\ lastOp.eventCode = "evt1"
    /\ lastOp.repeated
    /\ started["evt1"].state = "stopped"
    /\ "evt2" \in DOMAIN intervals
    /\ LiveFor("evt2") = {intervals["evt2"]}

\* the live interval timers, of any event code
LiveIntervals == {id \in DOMAIN timers : timers[id].kind = "interval"}

(* C21: after cleanupAllIntervals() no revalidation timer is active for any
   event code: the map is empty, no interval timer is live, and a callback
   registered before the call never runs afterwards (a timer that runs
   belongs to a start issued after the cleanup). *)
C21_CleanupStopsEverything ==
    /\ lastOp.op = "cleanup" => (intervals = EmptyMap /\ LiveIntervals = {})
    /\ \A id \in LiveIntervals :
          /\ timers[id].cb.eventCode \in DOMAIN intervals
          /\ intervals[timers[id].cb.eventCode] = id
    /\ lastOp.op = "fire" =>
          /\ lastOp.eventCode \in DOMAIN intervals
          /\ intervals[lastOp.eventCode] = lastOp.id
          /\ started[lastOp.eventCode].state = "active"

\* cleanup clears the intervals of both event codes, one of them already due
C21_Witness ==
    /\ lastOp.op = "cleanup"
    /\ lastOp.cleared = EventCodes
    /\ \A e \in EventCodes : started[e].state = "stopped"
    /\ now >= started["evt1"].at + EMPTY_REVALIDATION_INTERVAL
    /\ timers = EmptyMap

-----------------------------------------------------------------------------
(* hashtags.ts: normalizeHashtag *)

\* a string is the sequence of its characters; one character stands for each
\* class the function distinguishes
Chars == {"a", "B", "_", "-", " ", "!"}
LegalChars == {"a", "b", "_", "-"}
HASHTAG_MIN == 3
HASHTAG_MAX == 30

IsSpace(c) == c = " "

\* String.prototype.trim
RECURSIVE TrimStart(_)
TrimStart(str) ==
    IF str # << >> /\ IsSpace(Head(str)) THEN TrimStart(Tail(str)) ELSE str
RECURSIVE TrimEnd(_)
TrimEnd(str) ==
    IF str # << >> /\ IsSpace(str[Len(str)])
    THEN TrimEnd(SubSeq(str, 1, Len(str) - 1))
    ELSE str
Trim(str) == TrimEnd(TrimStart(str))

\* String.prototype.toLowerCase
LowerChar(c) == IF c = "B" THEN "b" ELSE c
ToLowerCase(str) == [i \in 1..Len(str) |-> LowerChar(str[i])]

\* /\s/.test(str)
HasSpace(str) == \E i \in 1..Len(str) : IsSpace(str[i])

\* str.replace(/[^a-z0-9_-]/g, '')
IsLegal(c) == c \in LegalChars
RemoveIllegal(str) == SelectSeq(str, IsLegal)

\* (variant: runs of hyphens are kept)
KeepHyphenRuns(str) == str
\* str.replace(/-+/g, '-')
RECURSIVE CollapseHyphens(_)
CollapseHyphens(str) ==
    IF Len(str) < 2 THEN str
    ELSE IF str[1] = "-" /\ str[2] = "-" THEN CollapseHyphens(Tail(str))
    ELSE <<str[1]>> \o CollapseHyphens(Tail(str))

\* str.replace(/^-+|-+$/g, '')
RECURSIVE StripStartHyphens(_)
StripStartHyphens(str) ==
    IF str # << >> /\ Head(str) = "-" THEN StripStartHyphens(Tail(str)) ELSE str
RECURSIVE StripEndHyphens(_)
StripEndHyphens(str) ==
    IF str # << >> /\ str[Len(str)] = "-"
    THEN StripEndHyphens(SubSeq(str, 1, Len(str) - 1))
    ELSE str
StripHyphens(str) == StripEndHyphens(StripStartHyphens(str))

\* /^[a-z0-9_-]{3,30}$/.test(str)
FinalRegex(str) ==
    /\ Len(str) >= HASHTAG_MIN
    /\ Len(str) <= HASHTAG_MAX
    /\ \A i \in 1..Len(str) : IsLegal(str[i])

Returned(v) == [ok |-> TRUE, value |-> v]
HashtagError(message) == [ok |-> FALSE, error |-> message]

\* the steps between the space check and the length checks
Cleaned(str) == StripHyphens(CollapseHyphens(RemoveIllegal(str)))

\* a JavaScript value passed as code: a string, or undefined
Str(chars) == [type |-> "string", chars |-> chars]
Undefined == [type |-> "undefined"]

\* normalizeHashtag(code): the value returned or the HashtagError thrown
normalizeHashtag(code) ==
    IF code.type # "string" THEN HashtagError("Hashtag is required")
    ELSE IF code.chars = << >> THEN HashtagError("Hashtag is required")
    ELSE LET lowered == ToLowerCase(Trim(code.chars))
             normalized == Cleaned(lowered)
         IN  IF HasSpace(lowered) THEN HashtagError("Hashtag cannot contain spaces")
             ELSE IF Len(normalized) < HASHTAG_MIN
                  THEN HashtagError("Hashtag must be at least 3 characters long")
             ELSE IF Len(normalized) > HASHTAG_MAX
                  THEN HashtagError("Hashtag must be no more than 30 characters long")
             ELSE IF ~FinalRegex(normalized)
                  THEN HashtagError("Hashtag contains invalid characters")
             ELSE Returned(normalized)

\* the normal form the doc comment describes: trimming, lowercasing,
\* replacing spaces with hyphens, removing illegal characters, collapsing
\* repeated hyphens
SpacesToHyphens(str) == [i \in 1..Len(str) |-> IF IsSpace(str[i]) THEN "-" ELSE str[i]]
Documented(code) == Cleaned(SpacesToHyphens(ToLowerCase(Trim(code))))

-----------------------------------------------------------------------------
(* normalizeHashtag under an arbitrary caller *)

\* inputs are built from runs of one character, so that short inputs and
\* inputs around the 30 character limit are both covered
RunLens == {1, 2, 28}
Run(c, n) == [i \in 1..n |-> c]
RunSeqs == UNION {[1..k -> Chars \X RunLens] : k \in 0..MaxRuns}
RECURSIVE Expand(_)
Expand(runs) ==
    IF runs = << >> THEN << >>
    ELSE Run(runs[1][1], runs[1][2]) \o Expand(Tail(runs))
HashtagInputs == {Str(Expand(r)) : r \in RunSeqs} \cup {Undefined}

\* the function keeps no state: each behaviour examines one call and the
\* normalization of its result
CallNormalize ==
    /\ lastOp.op = "load"
    /\ \E code \in HashtagInputs :
          lastOp' = [op |-> "normalize", code |-> code, ret |-> normalizeHashtag(code),
                     again |-> FALSE]
    /\ UNCHANGED <<libState, galleryVars>>

\* the caller normalizes a value normalizeHashtag returned
CallNormalizeAgain ==
    /\ lastOp.op = "normalize"
    /\ lastOp.ret.ok
    /\ ~lastOp.again
    /\ lastOp' = [op |-> "normalize", code |-> Str(lastOp.ret.value),
                  ret |-> normalizeHashtag(Str(lastOp.ret.value)), again |-> TRUE,
                  first |-> lastOp.code]
    /\ UNCHANGED <<libState, galleryVars>>

NextHashtag == CallNormalize \/ CallNormalizeAgain

SpecHashtag == Init /\ [][NextHashtag]_vars

\* the last operation was normalizeHashtag of a string
IsNormalize == lastOp.op = "normalize" /\ lastOp.code.type = "string"

(* C22: normalizeHashtag replaces spaces with hyphens: an input with
   interior spaces whose normal form (trimmed, lowercased, spaces replaced by
   hyphens, illegal characters removed, repeated hyphens collapsed) has 3 to
   30 characters is returned in that form, not rejected. *)
C22_SpacesBecomeHyphens ==
    (/\ IsNormalize
     /\ HasSpace(Trim(lastOp.code.chars))
     /\ Len(Documented(lastOp.code.chars)) >= HASHTAG_MIN
     /\ Len(Documented(lastOp.code.chars)) <= HASHTAG_MAX)
        => lastOp.ret = Returned(Documented(lastOp.code.chars))

HashtagMessages ==
    {"Hashtag is required", "Hashtag cannot contain spaces",
     "Hashtag must be at least 3 characters long",
     "Hashtag must be no more than 30 characters long",
     "Hashtag contains invalid characters"}

\* str is 3 to 30 characters over [a-z0-9_-] with no leading, trailing or
\* doubled hyphen
WellFormedHashtag(str) ==
    /\ Len(str) >= HASHTAG_MIN
    /\ Len(str) <= HASHTAG_MAX
    /\ \A i \in 1..Len(str) : str[i] \in LegalChars
    /\ str[1] # "-"
    /\ str[Len(str)] # "-"
    /\ \A i \in 1..(Len(str) - 1) : ~(str[i] = "-" /\ str[i + 1] = "-")

(* C30: every value normalizeHashtag returns is 3 to 30 characters over
   [a-z0-9_-], has no leading or trailing hyphen and no two consecutive
   hyphens, and is a fixed point of the function; every input that is not
   accepted raises HashtagError instead of returning a value. *)
C30_ReturnedHashtagIsNormalForm ==
    lastOp.op = "normalize" =>
        /\ lastOp.ret.ok => WellFormedHashtag(lastOp.ret.value)
        /\ ~lastOp.ret.ok => lastOp.ret.error \in HashtagMessages
        /\ lastOp.again => lastOp.ret = Returned(lastOp.code.chars)

\* an input of more than 30 characters with capitals, illegal characters and
\* a run of hyphens is cut down to 30, and normalizing the result returns it
C30_Witness ==
    /\ lastOp.op = "normalize"
    /\ lastOp.again
    /\ Len(lastOp.first.chars) > HASHTAG_MAX
    /\ lastOp.first.chars # lastOp.code.chars
    /\ Len(lastOp.ret.value) = HASHTAG_MAX
    /\ \E i \in 1..Len(lastOp.ret.value) : lastOp.ret.value[i] = "-"
    /\ lastOp.ret.value = lastOp.code.chars

\* the last step was the completion of a failed fetch, mounted or not
FailedFetch == lastOp.op = "resolve" /\ ~lastOp.fetch.ok

(* C23: a fetch that fails, foreground or background, leaves the shared
   cache and the scheduler unchanged: the entry of the event code keeps its
   files and timestamp (or stays absent) and no revalidation timer is
   started or stopped. *)
C23_FailureLeavesCacheAndTimers ==
    FailedFetch =>
        /\ cache = lastOp.cacheBefore
        /\ timers = lastOp.timersBefore
        /\ intervals = lastOp.intervalsBefore

\* a poll of the empty gallery fails: the cached empty listing and the
\* interval that issued the poll are both still there
C23_Witness ==
    /\ FailedFetch
    /\ lastOp.fetch.origin = "poll"
    /\ lastOp.fetch.isBackground
    /\ lastOp.fetch.eventCode \in DOMAIN cache
    /\ lastOp.fetch.eventCode \in DOMAIN intervals
    /\ intervals[lastOp.fetch.eventCode] \in DOMAIN timers

\* the listing a fetch answered now would produce for event code e
BackendListing(e) == MappedFiles(SortedFiles(media[e]))

(* C24: after a successful upload to event e the cache entry for e is
   invalidated, so the next cache read for e finds no entry: a Gallery
   mounted after the upload never renders from the cache a listing that was
   fetched before the upload. *)
C24_UploadInvalidatesCache ==
    /\ lastOp.op = "upload" => lastOp.eventCode \notin DOMAIN cache
    /\ (lastOp.op = "mount" /\ lastOp.cached # Null) =>
          lastOp.cached.files = BackendListing(lastOp.eventCode)

-----------------------------------------------------------------------------
(* The Gallery when timers fire and the backend answers: progress *)

\* the clock reaches the due time of a pending timer
TickToDue ==
    /\ SysStep
    /\ \E id \in DOMAIN timers : timers[id].due > now /\ now' = timers[id].due
    /\ lastOp' = [op |-> "tick"]
    /\ UNCHANGED <<ticks, cache, intervals, timers, nextTimerId, timeoutId,
                   callLog, funcLog, lastSet, started, mounted, inst, galleryEvent,
                   refreshKey, files, loading, error, isInitialLoad, lastRefreshKey,
                   media, fetches, nextFetchId, toasts, completed, lightboxVars,
                   uploadVars>>

\* the backend fails a request: one of the finitely many disturbances
AnswerError == EnvStep /\ \E id \in DOMAIN fetches : BackendAnswer(id, FALSE)
\* the backend answers a request with the rows it holds
AnswerOk == SysStep /\ \E id \in DOMAIN fetches : BackendAnswer(id, TRUE)

PollFires == nextFetchId <= MaxFetches /\ RunPoll
BgRefreshFires == nextFetchId <= MaxFetches /\ RunBgRefresh

NextPoll ==
    \/ TickToDue
    \/ DoMount
    \/ DoUnmount
    \/ DoUpload
    \/ AnswerError
    \/ AnswerOk
    \/ DoResolve
    \/ PollFires
    \/ BgRefreshFires

\* time passes, due timers run, the backend answers and responses are handled
FairPoll ==
    /\ WF_vars(TickToDue)
    /\ WF_vars(PollFires)
    /\ WF_vars(BgRefreshFires)
    /\ WF_vars(AnswerOk)
    /\ WF_vars(DoResolve)

SpecPoll == Init /\ [][NextPoll]_vars /\ FairPoll

\* the mounted Gallery shows the empty state, the revalidation timer of its
\* event code is live, the backend listing is non-empty, and from here on no
\* request fails and nothing else disturbs the Gallery
EmptyGalleryPolling ==
    /\ mounted
    /\ ~loading
    /\ error = Null
    /\ files.items = << >>
    /\ galleryEvent \in DOMAIN intervals
    /\ media[galleryEvent] # << >>
    /\ events = MaxEvents
    /\ \A id \in DOMAIN fetches : fetches[id].state = "sent" \/ fetches[id].ok
    /\ nextFetchId + Cardinality(DOMAIN fetches) <= MaxFetches

\* the Gallery lists the files and the revalidation timer is stopped
ListingShownPollingStopped ==
    /\ mounted
    /\ files.items # << >>
    /\ galleryEvent \notin DOMAIN intervals

(* C25: empty-gallery polling converges: if a mounted Gallery's fetch
   returned an empty listing and from some point on the backend listing is
   non-empty and fetches succeed, then with timers firing eventually a poll
   fetches it, the displayed listing becomes non-empty and the revalidation
   timer of the event code is stopped. *)
C25_PollingConverges == EmptyGalleryPolling ~> ListingShownPollingStopped

(* C26: the error state is not sticky: when the fetch of the mounted Gallery
   that completed last succeeded, error is null, so the Gallery shows the
   listing or the empty state and not the error panel; a successful poll
   after a failed poll returns the Gallery to ready. *)
C26_SuccessClearsError ==
    (lastOp.op = "resolve" /\ lastOp.fetch.ok /\ lastOp.alive) => error = Null

\* the foreground fetches of the mounted Gallery that are in flight
ForegroundInFlight ==
    {id \in DOMAIN fetches : ~fetches[id].isBackground /\ Alive(fetches[id].inst)}

(* C27: for a mounted Gallery whose initial load has started, loading = true
   implies that a foreground fetch is in flight: every foreground fetch sets
   loading to false when it completes, on success and on failure alike, and
   background fetches never change loading. *)
C27_LoadingMeansForegroundFetch ==
    /\ (mounted /\ loading) => ForegroundInFlight # {}
    /\ (lastOp.op = "resolve" /\ lastOp.alive /\ ~lastOp.fetch.isBackground) => ~loading
    /\ (lastOp.op = "resolve" /\ lastOp.fetch.isBackground) =>
          loading = lastOp.loadingBefore
    /\ (lastOp.op = "timer" /\ lastOp.fn \in {"bgRefresh", "poll"}) =>
          loading = lastOp.loadingBefore

\* a Gallery that had finished loading starts a refresh-triggered foreground
\* fetch and shows the loading state again
C27_Witness ==
    /\ lastOp.op = "timer"
    /\ lastOp.fn = "debouncedFetch"
    /\ Alive(lastOp.inst)
    /\ ~lastOp.loadingBefore
    /\ loading
    /\ ForegroundInFlight = {lastOp.fetch}

-----------------------------------------------------------------------------
(* Gallery.tsx: the lightbox *)

\* getFileType(name): every file of the model's backend is a photo
getFileType(name) == "image"

\* the render reaches the grid and the lightbox: not loading, no error, files
GridRendered == mounted /\ ~loading /\ error = Null /\ files.items # << >>

\* files.findIndex(f => f.id === id), 0-based
FindIndex(items, id) ==
    IF \E i \in 1..Len(items) : items[i].id = id
    THEN (CHOOSE i \in 1..Len(items) :
             /\ items[i].id = id
             /\ \A j \in 1..(i - 1) : items[j].id # id) - 1
    ELSE -1

\* files[i] of the code (0-based), or Null where the code reads undefined
FileAt(items, i) == IF i >= 0 /\ i < Len(items) THEN items[i + 1] ELSE Null

LightboxFrame ==
    UNCHANGED <<libState, mounted, inst, galleryEvent, refreshKey, files, loading, error,
                isInitialLoad, lastRefreshKey, media, fetches, nextFetchId, toasts,
                completed, uploadVars, events>>

\* the user clicks the k-th tile of the grid
handleTileClick(k) ==
    /\ GridRendered
    /\ k \in 1..Len(files.items)
    /\ IF getFileType(files.items[k].name) = "other"
       THEN UNCHANGED lightboxVars
       ELSE /\ activeTitle' = files.items[k].name
            /\ activeIndex' = FindIndex(files.items, files.items[k].id)
            /\ lightboxOpen' = TRUE
    /\ lastOp' = [op |-> "tileClick", tile |-> k]
    /\ LightboxFrame

\* setActiveIndex(activeIndex - 1) / setActiveIndex(activeIndex + 1)
IndexAfterStep(idx, step) == idx + step

\* handlePrevious (step = -1) and handleNext (step = 1) past their range test;
\* reading .name of a file that is not there throws before any state is set
StepTo(step) ==
    LET target == FileAt(files.items, activeIndex + step)
    IN  IF target = Null \/ getFileType(target.name) = "other"
        THEN UNCHANGED lightboxVars
        ELSE /\ activeTitle' = target.name
             /\ activeIndex' = IndexAfterStep(activeIndex, step)
             /\ UNCHANGED lightboxOpen

handlePrevious ==
    /\ GridRendered /\ lightboxOpen
    /\ IF activeIndex > 0 THEN StepTo(-1) ELSE UNCHANGED lightboxVars
    /\ lastOp' = [op |-> "previous", from |-> activeIndex]
    /\ LightboxFrame

handleNext ==
    /\ GridRendered /\ lightboxOpen
    /\ IF activeIndex < Len(files.items) - 1 THEN StepTo(1) ELSE UNCHANGED lightboxVars
    /\ lastOp' = [op |-> "next", from |-> activeIndex]
    /\ LightboxFrame

\* onClose={() => setLightboxOpen(false)}
closeLightbox ==
    /\ GridRendered /\ lightboxOpen
    /\ lightboxOpen' = FALSE
    /\ UNCHANGED <<activeIndex, activeTitle>>
    /\ lastOp' = [op |-> "close"]
    /\ LightboxFrame

ClickTile == \E k \in 1..Len(files.items) : handleTileClick(k)

\* the Gallery of Spec with a user who opens, browses and closes the lightbox
NextLightbox ==
    \/ TickGallery
    \/ DoMount
    \/ DoUnmount
    \/ DoRefresh
    \/ DoUpload
    \/ DoAnswer
    \/ DoResolve
    \/ RunBgRefresh
    \/ RunDebouncedFetch
    \/ RunPoll
    \/ ClickTile
    \/ handlePrevious
    \/ handleNext
    \/ closeLightbox

SpecLightbox == Init /\ [][NextLightbox]_vars

(* C29: while the lightbox is open, activeIndex is a valid index into the
   displayed listing and files[activeIndex] is the item being shown, under
   any interleaving of handleTileClick, handlePrevious, handleNext and
   replacements of the listing by background or foreground fetches. *)
C29_ActiveIndexTracksShownFile ==
    (GridRendered /\ lightboxOpen) =>
        /\ activeIndex >= 0
        /\ activeIndex < Len(files.items)
        /\ files.items[activeIndex + 1].name = activeTitle

-----------------------------------------------------------------------------
(* UploaderAndGallery.tsx: tracked uploads and their retries *)

MAX_RETRIES == 3

\* a tracked upload as handleFileUpload creates it and marks it uploading;
\* lastAttempt is history: the outcome of the latest attempt that ended
NewUpload(n) == [id |-> n, status |-> "uploading", retryCount |-> 0,
                 maxRetries |-> MAX_RETRIES, lastAttempt |-> "none"]

\* prev.map(f => f.id === id ? change(f) : f): no entry with that id, no change
IsTracked(ups, id) == id \in 1..Len(ups)

\* retryFailedUploads: the filter
Retryable(f) == f.status = "error" /\ f.retryCount < f.maxRetries
FailedUploads(ups) == SelectSeq(ups, Retryable)

\* retryFailedUploads: the loop body up to its await
MarkRetrying(ups, id) ==
    IF IsTracked(ups, id)
    THEN [ups EXCEPT ![id] = [@ EXCEPT !.status = "retrying",
                                       !.retryCount = @ + 1]]
    ELSE ups

\* retryFailedUploads: the catch block
StatusAfterFailedRetry(f) == IF f.retryCount >= f.maxRetries THEN "error" ELSE "pending"

\* the user selects n files: handleFileUpload up to the uploads' awaits
handleFileUpload(n) ==
    /\ uploadFiles = << >>
    /\ retryCalls = EmptyMap
    /\ uploadFiles' = [i \in 1..n |-> NewUpload(i)]
    /\ UNCHANGED retryCalls
    /\ lastOp' = [op |-> "selectFiles", count |-> n]

\* the first attempt of upload id ends
UploadSettles(id, ok) ==
    /\ IsTracked(uploadFiles, id)
    /\ uploadFiles[id].status = "uploading"
    /\ uploadFiles' = [uploadFiles EXCEPT ![id] =
                          [@ EXCEPT !.status = IF ok THEN "completed" ELSE "error",
                                    !.lastAttempt = IF ok THEN "ok" ELSE "failed"]]
    /\ UNCHANGED retryCalls
    /\ lastOp' = [op |-> "uploadSettles", id |-> id, ok |-> ok]

\* setTimeout(() => setUploadFiles([]), 3000), set once every first attempt
\* has settled
ClearUploads ==
    /\ uploadFiles # << >>
    /\ \A i \in 1..Len(uploadFiles) : uploadFiles[i].status # "uploading"
    /\ uploadFiles' = << >>
    /\ UNCHANGED retryCalls
    /\ lastOp' = [op |-> "clearUploads"]

\* the user clicks Retry Failed: retryFailedUploads up to its first await
retryFailedUploads ==
    LET failedUploads == FailedUploads(uploadFiles)
        call == CHOOSE c \in 1..(Cardinality(DOMAIN retryCalls) + 1) :
                    /\ c \notin DOMAIN retryCalls
                    /\ \A d \in 1..(c - 1) : d \in DOMAIN retryCalls
    IN  /\ failedUploads # << >>
        /\ uploadFiles' = MarkRetrying(uploadFiles, failedUploads[1].id)
        /\ retryCalls' = MapSet(retryCalls, call,
                                [cur |-> failedUploads[1].id,
                                 rest |-> [i \in 1..(Len(failedUploads) - 1) |->
                                              failedUploads[i + 1].id]])
        /\ lastOp' = [op |-> "retryClick",
                      selected |-> [i \in 1..Len(failedUploads) |-> failedUploads[i].id]]

\* the attempt a retryFailedUploads call awaits ends; the loop goes on to its
\* next file or the call returns
RetrySettles(c, ok) ==
    LET id == retryCalls[c].cur
        settled ==
            IF IsTracked(uploadFiles, id)
            THEN [uploadFiles EXCEPT ![id] =
                     [@ EXCEPT !.status = IF ok THEN "completed"
                                          ELSE StatusAfterFailedRetry(uploadFiles[id]),
                               !.lastAttempt = IF ok THEN "ok" ELSE "failed"]]
            ELSE uploadFiles
        rest == retryCalls[c].rest
    IN  /\ IF rest = << >>
           THEN /\ uploadFiles' = settled
                /\ retryCalls' = MapDelete(retryCalls, c)
           ELSE /\ uploadFiles' = MarkRetrying(settled, Head(rest))
                /\ retryCalls' = [retryCalls EXCEPT ![c] =
                                     [cur |-> Head(rest), rest |-> Tail(rest)]]
        /\ lastOp' = [op |-> "retrySettles", id |-> id, ok |-> ok]

UploadFrame ==
    UNCHANGED <<libState, mounted, inst, galleryEvent, refreshKey, files, loading, error,
                isInitialLoad, lastRefreshKey, media, fetches, nextFetchId, toasts,
                completed, lightboxVars, events>>

SelectFiles == UploadFrame /\ \E n \in 1..MaxFiles : handleFileUpload(n)
FirstAttemptEnds ==
    UploadFrame /\ \E id \in 1..Len(uploadFiles), ok \in BOOLEAN : UploadSettles(id, ok)
UploadsCleared == UploadFrame /\ ClearUploads
RetryClicked == UploadFrame /\ retryFailedUploads
RetryAttemptEnds ==
    UploadFrame /\ \E c \in DOMAIN retryCalls, ok \in BOOLEAN : RetrySettles(c, ok)

NextUpload ==
    SelectFiles \/ FirstAttemptEnds \/ UploadsCleared \/ RetryClicked \/ RetryAttemptEnds

SpecUpload == Init /\ [][NextUpload]_vars

(* C28: an upload that keeps failing stays retryable until its retry budget
   is used up: retryCount never exceeds maxRetries, and as long as the last
   attempt of a tracked upload failed and retryCount < maxRetries its status
   is 'error' (or 'retrying' while the next attempt runs), so that
   retryFailedUploads selects it again. *)
C28_FailedUploadStaysRetryable ==
    \A i \in 1..Len(uploadFiles) :
        /\ uploadFiles[i].retryCount <= uploadFiles[i].maxRetries
        /\ (/\ uploadFiles[i].lastAttempt = "failed"
            /\ uploadFiles[i].retryCount < uploadFiles[i].maxRetries
            /\ uploadFiles[i].status # "retrying")
              => uploadFiles[i].status = "error"

====
